---- MODULE Spec2Model ----
(***************************************************************************)
(* Verification model of the ew2landers repository:                        *)
(*   - the Periscope sidebar widget (docs/js/periscope-sidebar.js):        *)
(*     schedule loader, filter engine, card renderer, refresh() entry;     *)
(*   - the static page build (tools/build.ps1): Slug, course / session /   *)
(*     location pages.                                                      *)
(* Text is modelled as a sequence of one-character strings, so that        *)
(* splitting, trimming, escaping and slugging are computed character by    *)
(* character.                                                               *)
(***************************************************************************)
EXTENDS Integers, Sequences, FiniteSets, TLC

----------------------------------------------------------------------------
(* Bounds of the model *)

\* longest session array a feed response carries
MaxFeedLen == 2
\* number of fetches the widget may issue in one behaviour
MaxFetches == 2
\* the clock runs over 0..MaxNow
MaxNow == 1
\* longest input text given to Slug
MaxSlugLen == 4
\* most panels in one schedule snapshot
MaxPanels == 2
\* build runs in one behaviour
MaxRuns == 2
\* longest session array loaded when the card list is rendered
MaxRenderLen == 5
\* most courses in data.courses of one schedule.json
MaxCourses == 3

----------------------------------------------------------------------------
(* Text helpers *)

\* JavaScript null / undefined for a text-valued field
Null == <<"(null)">>

\* JavaScript truthiness of a text value: null, undefined and "" are falsy
Falsy(t) == t = Null \/ t = <<>>

\* String(x) for a text-or-null value
String(t) == IF t = Null THEN <<"n", "u", "l", "l">> ELSE t

Range(s) == {s[i] : i \in 1..Len(s)}

\* haystack.indexOf(needle) !== -1
Contains(hay, needle) ==
  \E i \in 0..(Len(hay) - Len(needle)) :
    \A j \in 1..Len(needle) : hay[i + j] = needle[j]

WhiteSpace == {" "}

RECURSIVE TrimLeft(_)
TrimLeft(t) ==
  IF t # <<>> /\ Head(t) \in WhiteSpace THEN TrimLeft(Tail(t)) ELSE t

RECURSIVE TrimRight(_)
TrimRight(t) ==
  IF t # <<>> /\ t[Len(t)] \in WhiteSpace
  THEN TrimRight(SubSeq(t, 1, Len(t) - 1))
  ELSE t

\* String.prototype.trim
Trim(t) == TrimRight(TrimLeft(t))

\* String.prototype.split(sep) for a one-character separator
RECURSIVE SplitOn(_, _, _)
SplitOn(t, sep, cur) ==
  IF t = <<>> THEN <<cur>>
  ELSE IF Head(t) = sep THEN <<cur>> \o SplitOn(Tail(t), sep, <<>>)
  ELSE SplitOn(Tail(t), sep, Append(cur, Head(t)))

Split(t, sep) == SplitOn(t, sep, <<>>)

----------------------------------------------------------------------------
(* Feed records of the sidebar widget *)

\* session.start: an absent / empty value, a text Date cannot parse, or an
\* ISO time (the instant t on the model's clock)
NoStart == [kind |-> "missing", t |-> 0]
BadStart == [kind |-> "invalid", t |-> 0]
At(t) == [kind |-> "time", t |-> t]

T_BLS == <<"B", "L", "S">>
T_ACLS == <<"A", "C", "L", "S">>
T_AHA == <<"A", "H", "A">>
T_HSI == <<"H", "S", "I">>
T_online == <<"o", "n", "l", "i", "n", "e">>
T_inperson == <<"i", "n", "-", "p", "e", "r", "s", "o", "n">>
T_NC == <<"N", "C", " ", "-", " ", "B", "u", "r", "g", "a", "w">>
T_SC == <<"S", "C", " ", "-", " ", "C", "o", "n", "w", "a", "y">>

Session(start, course_id, family, certBody, deliveryMode, location, cleanTitle, title, seats, session_id) ==
  [start |-> start, course_id |-> course_id, family |-> family,
   certBody |-> certBody, deliveryMode |-> deliveryMode, location |-> location,
   cleanTitle |-> cleanTitle, title |-> title, seats |-> seats,
   session_id |-> session_id]

\* The session records feeds are built from.  seats is <<>> (absent) or <<n>>.
SessionPool ==
  { Session(At(0), <<"3", "4">>, T_BLS, T_AHA, T_online, T_NC, Null,
            <<"B", "L", "S">>, <<2>>, <<"9", "0", "1">>),
    Session(At(1), <<"5", "6">>, T_ACLS, T_AHA, T_inperson, <<"A", "&", "B">>,
            <<"<", "b", ">">>, Null, <<>>, <<"1", "'", "\"">>),
    Session(At(0), <<"\"", ">", "<">>, T_BLS, T_HSI, T_inperson, T_NC, Null, Null,
            <<0>>, Null),
    Session(NoStart, <<"3", "4">>, T_BLS, T_AHA, T_online, T_NC, Null,
            <<"B", "L", "S">>, <<>>, <<"9", "0", "3">>),
    Session(BadStart, <<"3", "4">>, T_BLS, T_AHA, T_online, T_NC, Null,
            <<"B", "L", "S">>, <<5>>, <<"9", "0", "4">>) }

RECURSIVE SeqsUpTo(_, _)
SeqsUpTo(S, n) ==
  IF n = 0 THEN {<<>>}
  ELSE LET shorter == SeqsUpTo(S, n - 1)
       IN shorter \cup {Append(q, x) : q \in {r \in shorter : Len(r) = n - 1}, x \in S}

\* The session arrays a feed can carry, and the JSON bodies a successful
\* response can carry: data.sessions is an array of
\* session records, or data has no sessions field, or the field is no array.
SessionArrays == SeqsUpTo(SessionPool, MaxFeedLen)

FeedBodies ==
  [shape : {"array"}, sessions : SessionArrays]
    \cup {[shape |-> "no-sessions-field", sessions |-> <<>>],
          [shape |-> "not-an-array", sessions |-> <<>>]}

\* The ways a fetch fails: fetch() rejects, response.ok is false, or
\* response.json() rejects.
FetchFailures == {"network", "http-status", "malformed-json"}

\* Values the host page gives window.PeriscopeFilter.  type is a JavaScript
\* string, "NULL" standing for null / undefined.
Filter(type, value) == [defined |-> TRUE, type |-> type, value |-> value]

NoFilterObject == [defined |-> FALSE, type |-> "NULL", value |-> Null]

HostFilters ==
  { NoFilterObject,
    Filter("family", <<>>),
    Filter("family", T_BLS),
    Filter("certBody", T_AHA),
    Filter("delivery", T_online),
    Filter("deliveryMode", T_online),
    Filter("course_id", <<"3", "4">>),
    Filter("course_id", <<"1", "2", ",", "3", "4">>),
    Filter("location_contains", <<"N", "C">>),
    Filter("zip", <<"2", "8">>) }

----------------------------------------------------------------------------
(* Slug: tools/build.ps1 *)

UpperLetters ==
  <<"A", "B", "C", "D", "E", "F", "G", "H", "I", "J", "K", "L", "M",
    "N", "O", "P", "Q", "R", "S", "T", "U", "V", "W", "X", "Y", "Z">>

LowerLetters ==
  <<"a", "b", "c", "d", "e", "f", "g", "h", "i", "j", "k", "l", "m",
    "n", "o", "p", "q", "r", "s", "t", "u", "v", "w", "x", "y", "z">>

Digits == {"0", "1", "2", "3", "4", "5", "6", "7", "8", "9"}

\* \p{L} and \p{Nd}, over the ASCII part of the alphabet
IsLetter(ch) == ch \in Range(UpperLetters) \cup Range(LowerLetters)

IsLetterOrDigit(ch) == IsLetter(ch) \/ ch \in Digits

\* Char.ToLowerInvariant
ToLowerChar(ch) ==
  IF ch \in Range(UpperLetters)
  THEN LowerLetters[CHOOSE i \in 1..Len(UpperLetters) : UpperLetters[i] = ch]
  ELSE ch

\* String.ToLowerInvariant
ToLowerInvariant(t) == [i \in 1..Len(t) |-> ToLowerChar(t[i])]

\* -replace '[^\p{L}\p{Nd}]+', '-' : every maximal run of other characters
\* becomes one hyphen
RECURSIVE ReplaceNonAlnumRuns(_)
ReplaceNonAlnumRuns(t) ==
  IF t = <<>> THEN <<>>
  ELSE IF IsLetterOrDigit(Head(t)) THEN <<Head(t)>> \o ReplaceNonAlnumRuns(Tail(t))
  ELSE IF Len(t) > 1 /\ ~IsLetterOrDigit(t[2]) THEN ReplaceNonAlnumRuns(Tail(t))
  ELSE <<"-">> \o ReplaceNonAlnumRuns(Tail(t))

\* -replace '[-]+', '-' : every run of hyphens becomes one hyphen
RECURSIVE CollapseHyphens(_)
CollapseHyphens(t) ==
  IF t = <<>> THEN <<>>
  ELSE IF Head(t) = "-" /\ Len(t) > 1 /\ t[2] = "-" THEN CollapseHyphens(Tail(t))
  ELSE <<Head(t)>> \o CollapseHyphens(Tail(t))

\* A plausible slip: only the leading hyphen is removed ('^-')
TrimHyphens_leadingOnly(t) ==
  IF t # <<>> /\ Head(t) = "-" THEN Tail(t) ELSE t

\* -replace '^-|-$', '' : one hyphen at the start and one at the end are removed
TrimHyphens(t) ==
  LET noLead == IF t # <<>> /\ Head(t) = "-" THEN Tail(t) ELSE t
  IN IF noLead # <<>> /\ noLead[Len(noLead)] = "-"
     THEN SubSeq(noLead, 1, Len(noLead) - 1)
     ELSE noLead

\* A plausible slip: the trim is applied before the runs are replaced
Slug_trimFirst(s) ==
  ToLowerInvariant(CollapseHyphens(ReplaceNonAlnumRuns(TrimHyphens(s))))

\* function Slug($s)
Slug(s) ==
  ToLowerInvariant(TrimHyphens(CollapseHyphens(ReplaceNonAlnumRuns(s))))

----------------------------------------------------------------------------
(* Page build: tools/build.ps1, data *)

\* Heading texts of the panels modelled
H_CPR == <<" ", "C", "P", "R", " ">>
H_cpr == <<"c", "p", "r", "!">>
H_BLS == <<"B", "L", "S">>
H_blank == <<" ">>

\* Date texts of the session items modelled
D_Jan5 == <<"J", "a", "n", " ", "5">>
D_1_5 == <<"1", "/", "5">>
D_TBA == <<"T", "B", "A">>

\* Location texts of the session items modelled
L_Wilm == <<"N", "C", " ", "-", " ", "W", "i", "l", "m", ":", " ", "1">>
L_Hall == <<"H", "a", "l", "l">>

\* [datetime]::Parse($dateStr) on the date texts modelled: <<>> when it throws,
\* else the yyyy, MM and dd of the date
ParseDate(dateStr) ==
  CASE dateStr = D_Jan5 -> <<[y |-> <<"2026">>, m |-> <<"01">>, d |-> <<"05">>]>>
    [] dateStr = D_1_5 -> <<[y |-> <<"2026">>, m |-> <<"01">>, d |-> <<"05">>]>>
    [] OTHER -> <<>>

\* One <li><a href="...enroll?id=N">date<span>location</span></a></li> of a
\* session list, as the li regex and the text split see it
Item(enrollId, dateStr, locStr) ==
  [enrollId |-> enrollId, dateStr |-> dateStr, locStr |-> locStr]

\* One enrpanel block: its ct id, its heading text, its description and its
\* <ul class="enrclass-list"> (absent, or the items in it)
Panel(id, heading, hasUl, items) ==
  [id |-> id, heading |-> heading, hasUl |-> hasUl, items |-> items]

PanelPool ==
  { Panel(<<"ct1">>, H_CPR, TRUE,
          <<Item(<<"7">>, D_Jan5, L_Wilm), Item(<<"8">>, D_Jan5, L_Wilm)>>),
    Panel(<<"ct2">>, H_CPR, TRUE, <<Item(<<"9">>, D_Jan5, L_Wilm)>>),
    Panel(<<"ct3">>, H_cpr, TRUE, <<Item(<<"7">>, D_1_5, L_Hall)>>),
    Panel(<<"ct4">>, H_blank, TRUE, <<Item(<<"4">>, D_Jan5, L_Wilm)>>),
    Panel(<<>>, H_BLS, FALSE, <<>>),
    Panel(<<"ct6">>, H_BLS, TRUE,
          <<Item(<<"5">>, D_TBA, L_Wilm), Item(<<"6">>, D_1_5, <<>>)>>) }

----------------------------------------------------------------------------
(* Page build: tools/build.ps1, paths and page derivation *)

\* A path under docs/ is the sequence of its segments, each a text
coursesDir == << <<"courses">> >>
sessionsDir == << <<"sessions">> >>
locationsDir == << <<"locations">> >>

\* docs/data/enrollware-schedule.html and docs/index.html
snapshotPath == << <<"data">>, <<"enrollware-schedule.html">> >>
rootIndexPath == << <<"index.html">> >>

\* Join-Path: an empty child leaves the parent
JoinPath(parent, child) == IF child = <<>> THEN parent ELSE Append(parent, child)

\* A directory and the directories above it, as New-Item -Force creates them
WithParents(dir) == {SubSeq(dir, 1, n) : n \in 1..Len(dir)}

\* A plausible slip: a panel without a session list is retained
RetainedPanel_headingOnly(p) == Trim(p.heading) # <<>>

\* The panels the course loop retains: a heading text after Trim() and a
\* session list
RetainedPanel(p) == Trim(p.heading) # <<>> /\ p.hasUl

\* $courses: Id, Title and UlHtml of every retained panel, in document order
ExtractCourses(panels) ==
  LET kept == SelectSeq(panels, RetainedPanel)
  IN [i \in 1..Len(kept) |->
        [Id |-> kept[i].id, Title |-> Trim(kept[i].heading), UlHtml |-> kept[i].items]]

\* A plausible slip: the enrollment id is left out of the session slug
SessionSlug_noEnrollId(title, locStr, dateStr, enrollId) ==
  Slug(title \o <<" ">> \o locStr \o <<" ">> \o dateStr)

\* $sessSlug = (Slug("$($c.Title) $locStr $dateStr")) + "-$enrollId"
SessionSlug(title, locStr, dateStr, enrollId) ==
  Slug(title \o <<" ">> \o locStr \o <<" ">> \o dateStr) \o <<"-">> \o enrollId

\* $outFile of a session item whose date parsed as dt
SessionOutFile(title, item, dt) ==
  LET outDir == JoinPath(JoinPath(JoinPath(sessionsDir, dt.y), dt.m), dt.d)
  IN JoinPath(outDir,
              SessionSlug(title, item.locStr, item.dateStr, item.enrollId)
                \o <<".html">>)

\* first index at or after i that holds no white space
RECURSIVE SkipSpaces(_, _)
SkipSpaces(t, i) ==
  IF i <= Len(t) /\ t[i] \in WhiteSpace THEN SkipSpaces(t, i + 1) ELSE i

\* last index of the run of non-colon characters that starts at i
RECURSIVE NonColonEnd(_, _)
NonColonEnd(t, i) ==
  IF i <= Len(t) /\ t[i] # ":" THEN NonColonEnd(t, i + 1) ELSE i - 1

\* '([A-Z]{2})\s*-\s*([^:]+)' matches at position i (-match ignores case)
CityStateMatchAt(t, i) ==
  /\ i + 1 <= Len(t)
  /\ IsLetter(t[i]) /\ IsLetter(t[i + 1])
  /\ LET h == SkipSpaces(t, i + 2)
     IN /\ h <= Len(t)
        /\ t[h] = "-"
        /\ NonColonEnd(t, h + 1) >= h + 1

\* $cityState: "City, ST" when the location text matches, else the text itself
CityState(locStr) ==
  LET starts == {i \in 1..Len(locStr) : CityStateMatchAt(locStr, i)}
  IN IF starts = {} THEN locStr
     ELSE LET i == CHOOSE k \in starts : \A o \in starts : k <= o
              h == SkipSpaces(locStr, i + 2)
              city == SubSeq(locStr, h + 1, NonColonEnd(locStr, h + 1))
          IN Trim(city) \o <<",", " ">> \o <<locStr[i], locStr[i + 1]>>

\* Write-Page $outPath $title $innerHtml, on the files and directories of docs/
WritePage(fs, outPath, title, innerHtml) ==
  LET page == [title |-> title, body |-> innerHtml]
      dir == SubSeq(outPath, 1, Len(outPath) - 1)
  IN [fs EXCEPT
        !.files = [q \in DOMAIN fs.files \cup {outPath} |->
                     IF q = outPath THEN page ELSE fs.files[q]],
        !.dirs = fs.dirs \cup WithParents(dir),
        !.written = Append(fs.written, outPath)]

\* The body of the session loop for one item of course c
BuildSession(fs, c, item) ==
  LET dt == ParseDate(item.dateStr)
  IN IF dt = <<>> THEN fs
     ELSE LET outFile == SessionOutFile(c.Title, item, dt[1])
              inner == [kind |-> "session", title |-> c.Title,
                        dateStr |-> item.dateStr, locStr |-> item.locStr,
                        enrollId |-> item.enrollId]
              wrote == WritePage(fs, outFile, c.Title, inner)
          IN IF item.locStr = <<>> THEN wrote
             ELSE [wrote EXCEPT
                     !.sessions = Append(wrote.sessions,
                                         [CityState |-> CityState(item.locStr),
                                          Url |-> outFile])]

\* foreach($m in $lim): the items of one course, in order
RECURSIVE BuildSessions(_, _, _)
BuildSessions(fs, c, items) ==
  IF items = <<>> THEN fs
  ELSE BuildSessions(BuildSession(fs, c, Head(items)), c, Tail(items))

\* The body of the course loop for course c: its page, then its sessions
BuildCoursePages(fs, c) ==
  LET courseDir == JoinPath(coursesDir, Slug(c.Title))
      inner == [kind |-> "course", title |-> c.Title, id |-> c.Id,
                ul |-> c.UlHtml]
      wrote == WritePage(fs, JoinPath(courseDir, <<"index.html">>), c.Title, inner)
  IN BuildSessions(wrote, c, c.UlHtml)

\* Group-Object CityState: the group names, in order of first appearance
\* (names are compared ignoring case)
RECURSIVE GroupNames(_, _)
GroupNames(entries, seen) ==
  IF entries = <<>> THEN seen
  ELSE LET name == Head(entries).CityState
           Same(n) == ToLowerInvariant(n) = ToLowerInvariant(name)
       IN IF SelectSeq(seen, Same) # <<>>
          THEN GroupNames(Tail(entries), seen)
          ELSE GroupNames(Tail(entries), Append(seen, name))

\* The location page loop over the groups named
RECURSIVE BuildLocationPages(_, _, _)
BuildLocationPages(fs, entries, names) ==
  IF names = <<>> THEN fs
  ELSE LET name == Head(names)
           InGroup(e) == ToLowerInvariant(e.CityState) = ToLowerInvariant(name)
           group == SelectSeq(entries, InGroup)
           locDir == JoinPath(locationsDir, Slug(name))
           inner == [kind |-> "location", name |-> name,
                     list |-> [i \in 1..Len(group) |-> group[i].Url]]
           isBlank == Trim(name) = <<>>
       IN BuildLocationPages(
            IF isBlank THEN fs
            ELSE WritePage(fs, JoinPath(locDir, <<"index.html">>),
                           <<"Classes in ">> \o name, inner),
            entries, Tail(names))

\* The elements of a finite set, in some fixed order
RECURSIVE SetToSeq(_)
SetToSeq(S) ==
  IF S = {} THEN <<>>
  ELSE LET x == CHOOSE y \in S : TRUE
       IN <<x>> \o SetToSeq(S \ {x})

\* "https://brian90cpr.github.io/ew2landers/", kept as one token
siteOrigin == <<"https://brian90cpr.github.io/ew2landers/">>

\* $rel: the path below docs/ with "/" between its segments
RECURSIVE RelUrl(_)
RelUrl(path) ==
  IF path = <<>> THEN <<>>
  ELSE IF Len(path) = 1 THEN Head(path)
  ELSE Head(path) \o <<"/">> \o RelUrl(Tail(path))

\* A plausible slip: every file named index.html is left out, not only the
\* one at the root
SitemapUrls_noIndexFiles(htmlFiles) ==
  LET listed == SetToSeq({f \in htmlFiles : f[Len(f)] # <<"index.html">>})
  IN <<siteOrigin>> \o [i \in 1..Len(listed) |-> siteOrigin \o RelUrl(listed[i])]

\* $sitemap: the site root, then every *.html under docs/ whose $rel is not
\* "index.html"
SitemapUrls(htmlFiles) ==
  LET listed == SetToSeq({f \in htmlFiles : RelUrl(f) # RelUrl(rootIndexPath)})
  IN <<siteOrigin>> \o [i \in 1..Len(listed) |-> siteOrigin \o RelUrl(listed[i])]

----------------------------------------------------------------------------
(* State *)

VARIABLES
  \* --- sidebar widget ---
  scheduleUrl,      \* data-schedule-url is set (TRUE) or absent / empty (FALSE)
  maxSessionsAttr,  \* data-max-sessions: <<>> (absent or not a number) or <<n>>
  maxSessions,      \* parseInt(data-max-sessions, 10) || 4
  allSessions,      \* state.allSessions
  lastFilter,       \* state.lastFilter
  PeriscopeFilter,  \* window.PeriscopeFilter, owned by the host page
  listEl,           \* .periscope-list: its className and its content
  limited,          \* the sessions whose cards listEl holds (render's `limited`)
  footerHref,       \* href of .periscope-all-dates
  inflight,         \* fetches issued and not yet settled
  now,              \* the clock new Date() reads
  fetchCount,       \* history: number of fetches issued so far
  everLoaded,       \* history: some fetch has completed successfully
  filterResult,     \* the value a direct call of filterSessions returned
  \* --- Slug, applied to one input ---
  slugIn,           \* the argument $s
  slugOut,          \* <<>> before the call, <<Slug(slugIn)>> after it
  slugAgain,        \* <<>> before the second call, <<Slug(Slug(slugIn))>> after
  \* --- page build: tools/build.ps1 ---
  buildPc,          \* position of the build script
  snapshot,         \* $panels: the panels the current run read from the snapshot
  courses,          \* $courses still to be built by the course loop
  buildSessions,    \* $sessions: the location roll-up entries
  files,            \* the *.html files under docs/: path -> page
  dirs,             \* the directories under docs/
  sitemap,          \* docs/sitemap.xml: <<>> (absent) or <<list of <loc> URLs>>
  written,          \* history: the pages written by the current run, in order
  runs,             \* history: number of build runs started
  prevWritten,      \* history: the pages written by the runs before this one
  \* --- course-family accordion: docs/js/accordion.js ---
  accPc,            \* "loading" until the fetch settles, then "rendered" or "fallback"
  accItems          \* the .cct-accordion-item children of #course-families, in order

widgetVars ==
  <<scheduleUrl, maxSessionsAttr, maxSessions, allSessions, lastFilter,
    PeriscopeFilter, listEl,
    limited, footerHref, inflight, now, fetchCount, everLoaded>>

slugVars == <<slugIn, slugOut, slugAgain>>

buildVars ==
  <<buildPc, snapshot, courses, buildSessions, files, dirs, sitemap, written, runs,
    prevWritten>>

accVars == <<accPc, accItems>>

vars == <<widgetVars, filterResult, slugVars, buildVars, accVars>>

----------------------------------------------------------------------------
(* Sidebar widget: docs/js/periscope-sidebar.js *)

\* x || null for a filter type
TypeOrNull(type) == IF type \in {"NULL", ""} THEN "NULL" ELSE type

\* x || null for a filter value
ValueOrNull(value) == IF Falsy(value) THEN Null ELSE value

\* var f = window.PeriscopeFilter || {}; f.type || null; f.value || null
ReadFilter ==
  IF PeriscopeFilter.defined
  THEN [type |-> TypeOrNull(PeriscopeFilter.type),
        value |-> ValueOrNull(PeriscopeFilter.value)]
  ELSE [type |-> "NULL", value |-> Null]

\* getCurrentFilter(): the filter now in force; caches it in state.lastFilter
getCurrentFilter ==
  LET type == ReadFilter.type
      value == ReadFilter.value
  IN IF lastFilter.type = type /\ lastFilter.value = value
     THEN [type |-> type, value |-> value, changed |-> FALSE,
           lastFilter |-> lastFilter]
     ELSE [type |-> type, value |-> value, changed |-> TRUE,
           lastFilter |-> [type |-> type, value |-> value]]

\* A plausible slip: d > now instead of d >= now
IsUpcoming_strictlyAfter(s) ==
  /\ s.start.kind # "missing"
  /\ s.start.kind # "invalid"
  /\ s.start.t > now

\* The time rule of filterSessions: s.start is set, parses, and d >= now
IsUpcoming(s) ==
  /\ s.start.kind # "missing"
  /\ s.start.kind # "invalid"
  /\ s.start.t >= now

\* The per-type rule of the widget's filterSessions (the one render() calls)
MatchesFilter(s, type, value) ==
  CASE type = "family" -> s.family = value
    [] type = "certBody" -> s.certBody = value
    [] type = "delivery" -> s.deliveryMode = value
    [] type = "course_id" -> String(s.course_id) = String(value)
    [] type = "location_contains" ->
         Contains(IF Falsy(s.location) THEN <<>> ELSE s.location, value)
    [] OTHER -> TRUE

\* filterSessions() of the widget, over state.allSessions = all
filterSessions(all) ==
  IF Len(all) = 0 THEN <<>>
  ELSE LET upcoming == SelectSeq(all, IsUpcoming)
           type == ReadFilter.type
           value == ReadFilter.value
           Keep(s) == MatchesFilter(s, type, value)
       IN IF type = "NULL" \/ value = Null THEN upcoming
          ELSE SelectSeq(upcoming, Keep)

\* courseIdList of the stand-alone filterSessions variant:
\* String(value).split(",").map(trim).filter(non-empty)
CourseIdList(value) ==
  LET parts == Split(String(value), ",")
      trimmed == [i \in 1..Len(parts) |-> Trim(parts[i])]
      NonEmpty(v) == Len(v) > 0
  IN SelectSeq(trimmed, NonEmpty)

\* The per-type rule of the stand-alone filterSessions variant
MatchesFilter_top(s, type, value) ==
  CASE type = "family" -> s.family = value
    [] type = "certBody" -> s.certBody = value
    [] type = "delivery" -> s.deliveryMode = value
    [] type = "course_id" ->
         LET courseIdList == CourseIdList(value)
             sid == IF s.course_id # Null THEN String(s.course_id) ELSE <<>>
         IN Len(courseIdList) = 0 \/ sid \in Range(courseIdList)
    [] type = "location_contains" ->
         Contains(IF Falsy(s.location) THEN <<>> ELSE s.location, value)
    [] OTHER -> TRUE

\* The stand-alone filterSessions variant (multi-value course_id)
filterSessions_top(all) ==
  IF Len(all) = 0 THEN <<>>
  ELSE LET upcoming == SelectSeq(all, IsUpcoming)
           type == ReadFilter.type
           value == ReadFilter.value
           Keep(s) == MatchesFilter_top(s, type, value)
       IN IF type = "NULL" \/ value = Null THEN upcoming
          ELSE SelectSeq(upcoming, Keep)

\* The five characters escapeHtml replaces, and what it replaces them with
SpecialChars == {"&", "<", ">", "\"", "'"}

EscapeChar(ch) ==
  CASE ch = "&" -> "&amp;"
    [] ch = "<" -> "&lt;"
    [] ch = ">" -> "&gt;"
    [] ch = "\"" -> "&quot;"
    [] ch = "'" -> "&#39;"
    [] OTHER -> ch

\* escapeHtml(str)
escapeHtml(str) ==
  IF Falsy(str) THEN <<>>
  ELSE [i \in 1..Len(String(str)) |-> EscapeChar(String(str)[i])]

\* formatDateTime(iso): the locale's rendering of the instant, as one token each
formatDateTime(iso) ==
  IF iso.kind # "time"
  THEN [date |-> <<"Date TBA">>, time |-> <<>>]
  ELSE [date |-> <<"date:", ToString(iso.t)>>, time |-> <<"time:", ToString(iso.t)>>]

\* data-schedule-link of the host page
scheduleLink == <<"/", "s", "c", "h", "e", "d", "u", "l", "e">>

\* a || b for text values
OrElse(a, b) == IF Falsy(a) THEN b ELSE a

\* The registration link target of a card
CardUrl(session) ==
  IF ~Falsy(session.session_id)
  THEN <<"https://coastalcprtraining.enrollware.com/enroll?id=">>
         \o String(session.session_id)
  ELSE scheduleLink

\* The seat label and its class
SeatsLabel(session) ==
  IF session.seats = <<>> THEN <<"Open seats">>
  ELSE LET n == session.seats[1]
       IN IF n <= 0 THEN <<"Class full">>
          ELSE IF n <= 2
               THEN <<ToString(n), IF n = 1 THEN " seat left" ELSE " seats left">>
               ELSE <<ToString(n), " seats open">>

SeatsClass(session) ==
  IF session.seats = <<>> THEN <<"periscope-seats">>
  ELSE LET n == session.seats[1]
       IN IF n <= 0 THEN <<"periscope-seats periscope-seats-full">>
          ELSE IF n <= 2 THEN <<"periscope-seats periscope-seats-low">>
               ELSE <<"periscope-seats">>

\* The values buildCardHtml interpolates, as it inserts them
CardTitle(session) ==
  escapeHtml(OrElse(session.cleanTitle,
                    OrElse(session.title,
                           OrElse(session.family,
                                  <<"C", "P", "R", " ", "C", "l", "a", "s", "s">>))))

CardLocation(session) ==
  escapeHtml(OrElse(session.location,
                    <<"L", "o", "c", "a", "t", "i", "o", "n", " ", "T", "B", "A">>))

CardCourseIdAttr(session) == OrElse(session.course_id, <<>>)

CardHref(session) == CardUrl(session)

\* buildCardHtml(session): the markup, template text as whole tokens and
\* interpolated values one character (or one entity) per element
buildCardHtml(session) ==
  LET dt == formatDateTime(session.start)
  IN <<"<div class=\"periscope-card\">", "<div class=\"periscope-row-top\">",
       "<div>", "<div class=\"periscope-date\">">> \o dt.date
     \o <<"</div>", "<div class=\"periscope-time\">">> \o dt.time
     \o <<"</div>", "</div>", "<div class=\"periscope-location\">">>
     \o CardTitle(session)
     \o <<"</div>", "</div>", "<div class=\"periscope-location\">">>
     \o CardLocation(session)
     \o <<"</div>", "<div class=\"periscope-meta\">",
          "<div class=\"periscope-price\"></div>", "<div class=\"">>
     \o SeatsClass(session) \o <<"\">">> \o SeatsLabel(session)
     \o <<"</div>", "</div>", "<div class=\"periscope-card-actions\">",
          "<a class=\"periscope-button periscope-button-primary periscope-register-link\" ",
          "data-course-id=\"">>
     \o CardCourseIdAttr(session)
     \o <<"\" ", "href=\"">> \o CardHref(session)
     \o <<"\">Register</a>", "</div>", "</div>">>

\* a.start ? new Date(a.start) : 0, as a number; <<>> is NaN
SortKey(s) ==
  CASE s.start.kind = "missing" -> <<0>>
    [] s.start.kind = "invalid" -> <<>>
    [] OTHER -> <<s.start.t>>

\* the comparator of render(): da - db < 0
ComesBefore(a, b) ==
  /\ SortKey(a) # <<>>
  /\ SortKey(b) # <<>>
  /\ SortKey(a)[1] < SortKey(b)[1]

\* One insertion of a stable sort: x goes before the first element it precedes
RECURSIVE InsertSorted(_, _)
InsertSorted(q, x) ==
  IF q = <<>> THEN <<x>>
  ELSE IF ComesBefore(x, Head(q)) THEN <<x>> \o q
  ELSE <<Head(q)>> \o InsertSorted(Tail(q), x)

\* A plausible slip: the sessions are left in feed order
SortByStart_asLoaded(q) == q

\* sessions.sort(comparator): Array.prototype.sort is stable
RECURSIVE SortByStart(_)
SortByStart(q) ==
  IF q = <<>> THEN <<>>
  ELSE InsertSorted(SortByStart(SubSeq(q, 1, Len(q) - 1)), q[Len(q)])

\* sessions.slice(0, n)
Slice(q, n) == SubSeq(q, 1, IF n < Len(q) THEN n ELSE Len(q))

RECURSIVE Join(_)
Join(parts) == IF parts = <<>> THEN <<>> ELSE Head(parts) \o Join(Tail(parts))

ClassLoading == "periscope-list periscope-loading"
ClassError == "periscope-list periscope-error"
ClassEmpty == "periscope-list periscope-empty"
ClassCards == "periscope-list"

\* setLoading(), setError(message), setEmpty(message): the new listEl
setLoading == [className |-> ClassLoading, content |-> <<"Loading live class times...">>]

setError(message) == [className |-> ClassError, content |-> <<message>>]

setEmpty(message) == [className |-> ClassEmpty, content |-> <<message>>]

\* render() with state.allSessions = all: the new listEl, the sessions shown
\* and the new footer link target (<<>> when render() leaves it alone)
render(all) ==
  LET sessions == filterSessions(all)
  IN IF Len(sessions) = 0
     THEN [listEl |-> setEmpty("No upcoming classes match this filter. Try another class type or open the full schedule."),
           limited |-> <<>>,
           footerHref |-> <<>>]
     ELSE LET shown == Slice(SortByStart(sessions), maxSessions)
              firstCourseId == shown[1].course_id
          IN [listEl |-> [className |-> ClassCards,
                          content |-> Join([i \in 1..Len(shown) |-> buildCardHtml(shown[i])])],
              limited |-> shown,
              footerHref |->
                IF Len(shown) = 0 THEN <<>>
                ELSE IF ~Falsy(firstCourseId)
                     THEN <<scheduleLink \o <<"#ct">> \o String(firstCourseId)>>
                     ELSE <<scheduleLink>>]

\* The footer link target after a render: set only when cards were rendered
FooterAfter(shown, before) ==
  IF shown.footerHref = <<>> THEN before ELSE shown.footerHref[1]

\* parseInt(sidebar.getAttribute("data-max-sessions"), 10) || 4, the attribute
\* being <<>> (absent or not a number) or <<n>>
ParseMaxSessions(attr) == IF attr = <<>> \/ attr[1] = 0 THEN 4 ELSE attr[1]

\* data-max-sessions values of the host pages modelled
MaxSessionsAttrs == {<<>>, <<1>>}

\* load(): sets listEl and issues the fetch, if a URL is configured
load ==
  IF ~scheduleUrl
  THEN /\ listEl' = setError("No schedule URL configured.")
       /\ UNCHANGED <<inflight, fetchCount>>
  ELSE /\ listEl' = setLoading
       /\ inflight' = inflight + 1
       /\ fetchCount' = fetchCount + 1

\* The widget after initSidebar() has run: empty state, and the initial load()
WidgetInit ==
  /\ scheduleUrl \in BOOLEAN
  /\ maxSessionsAttr \in MaxSessionsAttrs
  /\ maxSessions = ParseMaxSessions(maxSessionsAttr)
  /\ allSessions = <<>>
  /\ lastFilter = [type |-> "NULL", value |-> Null]
  /\ PeriscopeFilter = NoFilterObject
  /\ listEl = IF scheduleUrl THEN setLoading
              ELSE setError("No schedule URL configured.")
  /\ limited = <<>>
  /\ footerHref = scheduleLink
  /\ inflight = IF scheduleUrl THEN 1 ELSE 0
  /\ fetchCount = IF scheduleUrl THEN 1 ELSE 0
  /\ now = 0
  /\ everLoaded = FALSE

\* The host page assigns window.PeriscopeFilter
SetFilter ==
  /\ \E f \in HostFilters : f # PeriscopeFilter /\ PeriscopeFilter' = f
  /\ UNCHANGED <<scheduleUrl, maxSessionsAttr, maxSessions, allSessions, lastFilter, listEl,
                 limited, footerHref, inflight, now, fetchCount, everLoaded>>
  /\ UNCHANGED <<filterResult, slugVars, buildVars, accVars>>

\* window.PeriscopeSidebar.refresh()
Refresh ==
  /\ lastFilter' = getCurrentFilter.lastFilter
  /\ IF Len(allSessions) > 0
     THEN LET shown == render(allSessions)
          IN /\ listEl' = shown.listEl
             /\ limited' = shown.limited
             /\ footerHref' = FooterAfter(shown, footerHref)
             /\ UNCHANGED <<inflight, fetchCount>>
     ELSE /\ scheduleUrl => fetchCount < MaxFetches
          /\ load
          /\ UNCHANGED <<limited, footerHref>>
  /\ UNCHANGED <<scheduleUrl, maxSessionsAttr, maxSessions, allSessions, PeriscopeFilter, now,
                 everLoaded>>
  /\ UNCHANGED <<filterResult, slugVars, buildVars, accVars>>

\* A fetch settles with an ok response and a JSON body: the second .then of load()
FetchSucceed ==
  /\ inflight > 0
  /\ \E data \in FeedBodies :
       LET loaded == IF data.shape = "array" THEN data.sessions ELSE <<>>
           shown == render(loaded)
       IN /\ allSessions' = loaded
          /\ lastFilter' = getCurrentFilter.lastFilter
          /\ listEl' = shown.listEl
          /\ limited' = shown.limited
          /\ footerHref' = FooterAfter(shown, footerHref)
  /\ inflight' = inflight - 1
  /\ everLoaded' = TRUE
  /\ UNCHANGED <<scheduleUrl, maxSessionsAttr, maxSessions, PeriscopeFilter, now, fetchCount>>
  /\ UNCHANGED <<filterResult, slugVars, buildVars, accVars>>

\* A fetch settles with a failure: the .catch of load()
FetchFail ==
  /\ inflight > 0
  /\ \E why \in FetchFailures :
       listEl' = setError("Unable to load live class times. Please open the full class schedule.")
  /\ inflight' = inflight - 1
  /\ UNCHANGED <<scheduleUrl, maxSessionsAttr, maxSessions, allSessions, lastFilter,
                 PeriscopeFilter, limited, footerHref, now, fetchCount,
                 everLoaded>>
  /\ UNCHANGED <<filterResult, slugVars, buildVars, accVars>>

\* Time passes
Tick ==
  /\ now < MaxNow
  /\ now' = now + 1
  /\ UNCHANGED <<scheduleUrl, maxSessionsAttr, maxSessions, allSessions, lastFilter,
                 PeriscopeFilter, listEl, limited, footerHref, inflight,
                 fetchCount, everLoaded>>
  /\ UNCHANGED <<filterResult, slugVars, buildVars, accVars>>

----------------------------------------------------------------------------
(* Specification of the sidebar widget *)

NoFiles == [q \in {} |-> <<>>]

\* The build and Slug are not running
SlugIdle == slugIn = <<>> /\ slugOut = <<>> /\ slugAgain = <<>>

BuildIdle ==
  /\ buildPc = "idle"
  /\ snapshot = <<>>
  /\ courses = <<>>
  /\ buildSessions = <<>>
  /\ files = NoFiles
  /\ dirs = {}
  /\ sitemap = <<>>
  /\ written = <<>>
  /\ runs = 0
  /\ prevWritten = {}

\* the accordion page is not open
AccordionIdle == accPc = "idle" /\ accItems = <<>>

\* filterSessions has not been called directly
FilterIdle == filterResult = [by |-> "none", out |-> <<>>]

Init == WidgetInit /\ FilterIdle /\ SlugIdle /\ BuildIdle /\ AccordionIdle

Next == SetFilter \/ Refresh \/ FetchSucceed \/ FetchFail \/ Tick

Spec == Init /\ [][Next]_vars

----------------------------------------------------------------------------
(* Specification of the filter engine: the initial load of every session
   array under every filter and clock value, then filterSessions applied *)

\* The widget after initSidebar(), the host having set any filter beforehand
\* and the clock standing anywhere
FilterInit ==
  /\ scheduleUrl = TRUE
  /\ maxSessionsAttr \in MaxSessionsAttrs
  /\ maxSessions = ParseMaxSessions(maxSessionsAttr)
  /\ allSessions = <<>>
  /\ lastFilter = [type |-> "NULL", value |-> Null]
  /\ PeriscopeFilter \in HostFilters
  /\ listEl = setLoading
  /\ limited = <<>>
  /\ footerHref = scheduleLink
  /\ inflight = 1
  /\ fetchCount = 1
  /\ now \in 0..MaxNow
  /\ everLoaded = FALSE
  /\ FilterIdle

\* filterSessions() as render() calls it
CallFilterSessions ==
  /\ everLoaded
  /\ filterResult.by = "none"
  /\ filterResult' = [by |-> "widget", out |-> filterSessions(allSessions)]
  /\ UNCHANGED <<widgetVars, slugVars, buildVars, accVars>>

\* the stand-alone filterSessions variant
CallFilterSessionsTop ==
  /\ everLoaded
  /\ filterResult.by = "none"
  /\ filterResult' = [by |-> "top", out |-> filterSessions_top(allSessions)]
  /\ UNCHANGED <<widgetVars, slugVars, buildVars, accVars>>

NextFilter == FetchSucceed \/ CallFilterSessions \/ CallFilterSessionsTop

InitFilter == FilterInit /\ SlugIdle /\ BuildIdle /\ AccordionIdle

SpecFilter == InitFilter /\ [][NextFilter]_vars

----------------------------------------------------------------------------
(* Specification of the card list: session arrays long enough to be cut off
   are loaded and rendered, then refresh() renders them again as time passes *)

\* Sessions with three different start times
RenderPool ==
  { Session(At(2), <<"3", "4">>, T_BLS, T_AHA, T_online, T_NC, Null,
            <<"B", "L", "S">>, <<2>>, <<"9", "0", "1">>),
    Session(At(0), <<"5", "6">>, T_ACLS, T_AHA, T_inperson, T_SC, Null,
            <<"A", "C", "L", "S">>, <<>>, <<"9", "0", "2">>),
    Session(At(1), <<"3", "4">>, T_BLS, T_AHA, T_online, T_NC, Null,
            <<"B", "L", "S">>, <<1>>, <<"9", "0", "3">>) }

\* data-max-sessions of the host pages: absent or not a number, or 2
RenderAttrs == {<<>>, <<2>>}

\* The filters in force while the list is rendered
RenderFilters == {NoFilterObject, Filter("family", T_BLS)}

\* The widget after initSidebar() and the successful load of one session
\* array: the .then of load() has stored and rendered it
RenderInit ==
  /\ scheduleUrl = TRUE
  /\ maxSessionsAttr \in RenderAttrs
  /\ maxSessions = ParseMaxSessions(maxSessionsAttr)
  /\ PeriscopeFilter \in RenderFilters
  /\ now = 0
  /\ allSessions \in SeqsUpTo(RenderPool, MaxRenderLen)
  /\ lastFilter = [type |-> ReadFilter.type, value |-> ReadFilter.value]
  /\ \E shown \in {render(allSessions)} :
       /\ listEl = shown.listEl
       /\ limited = shown.limited
       /\ footerHref = FooterAfter(shown, scheduleLink)
  /\ inflight = 0
  /\ fetchCount = 1
  /\ everLoaded = TRUE

NextRender == Refresh \/ Tick

InitRender == RenderInit /\ FilterIdle /\ SlugIdle /\ BuildIdle /\ AccordionIdle

SpecRender == InitRender /\ [][NextRender]_vars

----------------------------------------------------------------------------
(* Specification of Slug: applied to every text up to MaxSlugLen, then to its
   own result *)

\* letters of both cases, a digit, the hyphen and two other separators
SlugAlphabet == {"a", "B", "7", "-", " ", "."}

SlugInit ==
  /\ slugIn \in SeqsUpTo(SlugAlphabet, MaxSlugLen)
  /\ slugOut = <<>>
  /\ slugAgain = <<>>

CallSlug ==
  /\ slugOut = <<>>
  /\ slugOut' = <<Slug(slugIn)>>
  /\ UNCHANGED <<slugIn, slugAgain, widgetVars, filterResult, buildVars, accVars>>

CallSlugAgain ==
  /\ slugOut # <<>>
  /\ slugAgain = <<>>
  /\ slugAgain' = <<Slug(slugOut[1])>>
  /\ UNCHANGED <<slugIn, slugOut, widgetVars, filterResult, buildVars, accVars>>

NextSlug == CallSlug \/ CallSlugAgain

\* the widget is not mounted while Slug is exercised
WidgetIdle ==
  /\ scheduleUrl = FALSE
  /\ maxSessionsAttr = <<>>
  /\ maxSessions = ParseMaxSessions(<<>>)
  /\ allSessions = <<>>
  /\ lastFilter = [type |-> "NULL", value |-> Null]
  /\ PeriscopeFilter = NoFilterObject
  /\ listEl = setError("No schedule URL configured.")
  /\ limited = <<>>
  /\ footerHref = scheduleLink
  /\ inflight = 0
  /\ fetchCount = 0
  /\ now = 0
  /\ everLoaded = FALSE

InitSlug == SlugInit /\ WidgetIdle /\ FilterIdle /\ BuildIdle /\ AccordionIdle

SpecSlug == InitSlug /\ [][NextSlug]_vars

----------------------------------------------------------------------------
(* Specification of the page build: the snapshot is scraped, then build.ps1
   runs over it step by step *)

\* The schedule snapshots modelled: up to MaxPanels panels
Snapshots == SeqsUpTo(PanelPool, MaxPanels)

NotBuilding == buildPc \in {"idle", "done", "aborted"}

\* docs/ before the first build: no generated page, no snapshot yet; the site's
\* own index.html may be there, and a sitemap.xml listing what is there
BuildInit ==
  /\ buildPc = "idle"
  /\ snapshot = <<>>
  /\ courses = <<>>
  /\ buildSessions = <<>>
  /\ files \in {NoFiles,
                [q \in {rootIndexPath} |-> [title |-> <<>>, body |-> [kind |-> "index"]]]}
  /\ dirs = {}
  /\ sitemap \in {<<>>, <<SitemapUrls(DOMAIN files)>>}
  /\ written = <<>>
  /\ runs = 0
  /\ prevWritten = {}

\* refresh-schedule.ps1 downloads the schedule page into the snapshot file
WriteSnapshot ==
  /\ NotBuilding
  /\ runs < MaxRuns
  /\ \E panels \in Snapshots :
       LET page == [title |-> <<>>, body |-> [kind |-> "snapshot", panels |-> panels]]
       IN /\ (snapshotPath \in DOMAIN files => files[snapshotPath] # page)
          /\ files' = [q \in DOMAIN files \cup {snapshotPath} |->
                         IF q = snapshotPath THEN page ELSE files[q]]
  /\ dirs' = dirs \cup {<< <<"data">> >>}
  /\ UNCHANGED <<buildPc, snapshot, courses, buildSessions, sitemap, written, runs,
               prevWritten>>
  /\ UNCHANGED <<widgetVars, filterResult, slugVars, accVars>>

\* A plausible slip: the run starts from a clean output tree, keeping only the
\* snapshot and the site's own index.html
BuildStart_cleanOutput ==
  /\ NotBuilding
  /\ runs < MaxRuns
  /\ runs' = runs + 1
  /\ written' = <<>>
  /\ prevWritten' = prevWritten \cup Range(written)
  /\ IF snapshotPath \notin DOMAIN files
     THEN /\ buildPc' = "aborted"
          /\ UNCHANGED <<snapshot, courses, buildSessions, dirs, files>>
     ELSE /\ buildPc' = "courses"
          /\ snapshot' = files[snapshotPath].body.panels
          /\ courses' = ExtractCourses(files[snapshotPath].body.panels)
          /\ buildSessions' = <<>>
          /\ dirs' = dirs \cup {coursesDir, sessionsDir, locationsDir}
          /\ files' = [q \in DOMAIN files \cap {snapshotPath, rootIndexPath} |-> files[q]]
  /\ UNCHANGED sitemap
  /\ UNCHANGED <<widgetVars, filterResult, slugVars, accVars>>

\* A plausible slip: the output directories are created before the snapshot
\* test
BuildStart_dirsBeforeTest ==
  /\ NotBuilding
  /\ runs < MaxRuns
  /\ runs' = runs + 1
  /\ written' = <<>>
  /\ prevWritten' = prevWritten \cup Range(written)
  /\ dirs' = dirs \cup {coursesDir, sessionsDir, locationsDir}
  /\ IF snapshotPath \notin DOMAIN files
     THEN /\ buildPc' = "aborted"
          /\ UNCHANGED <<snapshot, courses, buildSessions>>
     ELSE /\ buildPc' = "courses"
          /\ snapshot' = files[snapshotPath].body.panels
          /\ courses' = ExtractCourses(files[snapshotPath].body.panels)
          /\ buildSessions' = <<>>
  /\ UNCHANGED <<files, sitemap>>
  /\ UNCHANGED <<widgetVars, filterResult, slugVars, accVars>>

\* build.ps1 up to the course loop: the snapshot test, the panel and course
\* extraction, the three output directories
BuildStart ==
  /\ NotBuilding
  /\ runs < MaxRuns
  /\ runs' = runs + 1
  /\ written' = <<>>
  /\ prevWritten' = prevWritten \cup Range(written)
  /\ IF snapshotPath \notin DOMAIN files
     THEN /\ buildPc' = "aborted"
          /\ UNCHANGED <<snapshot, courses, buildSessions, dirs>>
     ELSE /\ buildPc' = "courses"
          /\ snapshot' = files[snapshotPath].body.panels
          /\ courses' = ExtractCourses(files[snapshotPath].body.panels)
          /\ buildSessions' = <<>>
          /\ dirs' = dirs \cup {coursesDir, sessionsDir, locationsDir}
  /\ UNCHANGED <<files, sitemap>>
  /\ UNCHANGED <<widgetVars, filterResult, slugVars, accVars>>

\* One pass of the course loop: the course page and the session pages of the
\* next course
BuildCourse ==
  /\ buildPc = "courses"
  /\ courses # <<>>
  /\ LET fs == BuildCoursePages([files |-> files, dirs |-> dirs,
                                 written |-> written, sessions |-> buildSessions],
                                Head(courses))
     IN /\ files' = fs.files
        /\ dirs' = fs.dirs \cup {JoinPath(coursesDir, Slug(Head(courses).Title))}
        /\ written' = fs.written
        /\ buildSessions' = fs.sessions
  /\ courses' = Tail(courses)
  /\ UNCHANGED <<buildPc, snapshot, sitemap, runs, prevWritten>>
  /\ UNCHANGED <<widgetVars, filterResult, slugVars, accVars>>

\* The location pages, once the course loop is through
BuildLocations ==
  /\ buildPc = "courses"
  /\ courses = <<>>
  /\ LET fs == BuildLocationPages([files |-> files, dirs |-> dirs,
                                   written |-> written, sessions |-> buildSessions],
                                  buildSessions, GroupNames(buildSessions, <<>>))
     IN /\ files' = fs.files
        /\ dirs' = fs.dirs
        /\ written' = fs.written
  /\ buildPc' = "sitemap"
  /\ UNCHANGED <<snapshot, courses, buildSessions, sitemap, runs, prevWritten>>
  /\ UNCHANGED <<widgetVars, filterResult, slugVars, accVars>>

\* The sitemap step, which ends the run
BuildSitemap ==
  /\ buildPc = "sitemap"
  /\ sitemap' = <<SitemapUrls(DOMAIN files)>>
  /\ buildPc' = "done"
  /\ UNCHANGED <<snapshot, courses, buildSessions, files, dirs, written, runs,
               prevWritten>>
  /\ UNCHANGED <<widgetVars, filterResult, slugVars, accVars>>

NextBuild ==
  WriteSnapshot \/ BuildStart \/ BuildCourse \/ BuildLocations \/ BuildSitemap

InitBuild == BuildInit /\ WidgetIdle /\ FilterIdle /\ SlugIdle /\ AccordionIdle

SpecBuild == InitBuild /\ [][NextBuild]_vars

----------------------------------------------------------------------------
(* Course-family accordion: docs/js/accordion.js *)

\* a course of data.courses: the two fields getFamilyName reads, each <<>>
\* when the field is absent or the empty string
ScheduleCourse(family, course_family) ==
  [family |-> family, course_family |-> course_family]

OtherCourses ==
  <<"O", "t", "h", "e", "r", " ", "C", "o", "u", "r", "s", "e", "s">>

getFamilyName(course) ==
  IF course.family # <<>> THEN course.family
  ELSE IF course.course_family # <<>> THEN course.course_family
  ELSE OtherCourses

getFamilyClass(fam) ==
  LET f == ToLowerInvariant(fam)
  IN IF Contains(f, <<"b", "l", "s">>) THEN "cct-family-bls"
     ELSE IF Contains(f, <<"a", "c", "l", "s">>) THEN "cct-family-acls"
     ELSE IF Contains(f, <<"p", "a", "l", "s">>) THEN "cct-family-pals"
     ELSE IF Contains(f, <<"h", "e", "a", "r", "t", "s", "a", "v", "e", "r">>)
          THEN "cct-family-heartsaver"
     ELSE IF Contains(f, <<"h", "s", "i">>) THEN "cct-family-hsi"
     ELSE "cct-family-other"

\* Object.keys(groups): the family names in the order of their first course
RECURSIVE FamilyKeys(_)
FamilyKeys(cs) ==
  IF cs = <<>> THEN <<>>
  ELSE LET before == FamilyKeys(SubSeq(cs, 1, Len(cs) - 1))
           fam == getFamilyName(cs[Len(cs)])
       IN IF fam \in Range(before) THEN before ELSE Append(before, fam)

\* groups[fam]: the courses of one family, in feed order
FamilyCourses(cs, fam) == SelectSeq(cs, LAMBDA c : getFamilyName(c) = fam)

\* the item buildFamilyItem returns: closed, its panel height not yet set
buildFamilyItem(famName, famCourses) ==
  [title |-> famName,
   familyClass |-> getFamilyClass(famName),
   rows |-> Len(famCourses),
   open |-> FALSE,
   maxHeight |-> "unset"]

\* the items renderFamilies appends, before one of them is opened
FamilyItems(cs) ==
  LET keys == FamilyKeys(cs)
  IN [i \in 1..Len(keys) |-> buildFamilyItem(keys[i], FamilyCourses(cs, keys[i]))]

\* firstItem: querySelector(".cct-family-bls") || querySelector(".cct-accordion-item"),
\* as an index into the items; 0 when there is no item
FirstItem(items) ==
  LET bls == {i \in 1..Len(items) : items[i].familyClass = "cct-family-bls"}
  IN IF bls # {} THEN CHOOSE i \in bls : \A j \in bls : i <= j
     ELSE IF Len(items) > 0 THEN 1
     ELSE 0

\* renderFamilies(data), for data.courses = cs
renderFamilies(cs) ==
  LET items == FamilyItems(cs)
      first == FirstItem(items)
  IN [i \in 1..Len(items) |->
        IF i = first
        THEN [items[i] EXCEPT !.open = TRUE, !.maxHeight = "scrollHeight"]
        ELSE items[i]]

\* the courses a schedule.json can carry
CoursePool ==
  { ScheduleCourse(<<"A", "C", "L", "S">>, <<>>),
    ScheduleCourse(<<"B", "L", "S">>, <<>>),
    ScheduleCourse(<<>>, <<"b", "l", "s", " ", "R">>),
    ScheduleCourse(<<>>, <<>>) }

\* the course arrays data.courses of a schedule.json can hold
AccData == SeqsUpTo(CoursePool, MaxCourses)

\* DOMContentLoaded has run init(): the fetch is issued, nothing is rendered
AccordionInit ==
  /\ accPc = "loading"
  /\ accItems = <<>>

\* fetch and r.json() resolve with a body that holds a course array:
\* renderFamilies(data)
AccFetchSucceed ==
  /\ accPc = "loading"
  /\ \E cs \in AccData : accItems' = renderFamilies(cs)
  /\ accPc' = "rendered"
  /\ UNCHANGED <<widgetVars, filterResult, slugVars, buildVars>>

\* fetch or r.json() rejects, or renderFamilies throws on a body without a
\* course array: .catch(showFallback)
AccFetchFail ==
  /\ accPc = "loading"
  /\ accItems' = <<>>
  /\ accPc' = "fallback"
  /\ UNCHANGED <<widgetVars, filterResult, slugVars, buildVars>>

\* variant: a header click toggles its own item and leaves the others
ClickHeader_toggleOnly(k) ==
  /\ accPc = "rendered"
  /\ k \in 1..Len(accItems)
  /\ accItems' =
       [accItems EXCEPT ![k] =
          IF accItems[k].open
          THEN [accItems[k] EXCEPT !.open = FALSE, !.maxHeight = "0px"]
          ELSE [accItems[k] EXCEPT !.open = TRUE, !.maxHeight = "scrollHeight"]]
  /\ UNCHANGED accPc
  /\ UNCHANGED <<widgetVars, filterResult, slugVars, buildVars>>

\* the click handler of the header of item k
ClickHeader(k) ==
  /\ accPc = "rendered"
  /\ k \in 1..Len(accItems)
  /\ LET open == accItems[k].open
     IN accItems' =
          [i \in 1..Len(accItems) |->
             IF i = k /\ ~open
             THEN [accItems[i] EXCEPT !.open = TRUE, !.maxHeight = "scrollHeight"]
             ELSE [accItems[i] EXCEPT !.open = FALSE, !.maxHeight = "0px"]]
  /\ UNCHANGED accPc
  /\ UNCHANGED <<widgetVars, filterResult, slugVars, buildVars>>

ClickAnyHeader == \E k \in 1..MaxCourses : ClickHeader(k)

NextAccordion == AccFetchSucceed \/ AccFetchFail \/ ClickAnyHeader

InitAccordion ==
  AccordionInit /\ WidgetIdle /\ FilterIdle /\ SlugIdle /\ BuildIdle

SpecAccordion == InitAccordion /\ [][NextAccordion]_vars

----------------------------------------------------------------------------
(* Claims *)

\* C4: whatever the session set, the filter (set, unset or of an unrecognized
\* type) and the clock, filterSessions returns no session whose start is
\* missing, unparseable or strictly before now; and with no filter in force a
\* session whose start equals now is returned.
C4_NoPastSessions ==
  filterResult.by = "widget" =>
    /\ \A i \in 1..Len(filterResult.out) :
         /\ filterResult.out[i].start.kind = "time"
         /\ filterResult.out[i].start.t >= now
    /\ \A i \in 1..Len(allSessions) :
         (/\ allSessions[i].start.kind = "time"
          /\ allSessions[i].start.t = now
          /\ (ReadFilter.type = "NULL" \/ ReadFilter.value = Null))
           => allSessions[i] \in Range(filterResult.out)

\* C4 witness: the filter ran over a set holding a past session, a session
\* without a start, one with an unparseable start and one starting exactly now,
\* under a filter of an unrecognized type, and returned the one starting now
C4_Witness ==
  /\ filterResult.by = "widget"
  /\ ReadFilter.type = "zip"
  /\ \E i \in 1..Len(allSessions) :
       allSessions[i].start.kind = "time" /\ allSessions[i].start.t < now
  /\ \E i \in 1..Len(allSessions) :
       /\ allSessions[i].start = At(now)
       /\ allSessions[i] \in Range(filterResult.out)

\* C9: Slug is idempotent: Slug(Slug(x)) = Slug(x) for every input x.
C9_SlugIdempotent ==
  slugAgain # <<>> => slugAgain[1] = slugOut[1]

\* C9 witness: Slug changed its input, and a second application ran
C9_Witness ==
  /\ slugAgain # <<>>
  /\ slugOut[1] # slugIn
  /\ slugOut[1] # <<>>
  /\ Head(slugIn) = " "

\* C10: the result of Slug has no leading hyphen, no trailing hyphen, no two
\* adjacent hyphens and no upper-case letter.
C10_SlugShape ==
  slugOut # <<>> =>
    LET r == slugOut[1]
    IN /\ r # <<>> => (r[1] # "-" /\ r[Len(r)] # "-")
       /\ \A i \in 1..(Len(r) - 1) : ~(r[i] = "-" /\ r[i + 1] = "-")
       /\ \A i \in 1..Len(r) : r[i] \notin Range(UpperLetters)

\* C10 witness: an input that begins and ends with runs of several separator
\* characters and holds an upper-case letter has been slugged
C10_Witness ==
  /\ slugOut # <<>>
  /\ Len(slugIn) >= 4
  /\ ~IsLetterOrDigit(slugIn[1]) /\ ~IsLetterOrDigit(slugIn[2])
  /\ slugIn[Len(slugIn)] = "-"
  /\ \E i \in 1..Len(slugIn) : slugIn[i] \in Range(UpperLetters)
  /\ slugOut[1] # <<>>

\* C1: once a feed has loaded successfully, also one with an empty session
\* array, no later refresh() issues a fetch.
C1_NoRefetchOnceLoaded ==
  [][(Refresh /\ everLoaded) => fetchCount' = fetchCount]_vars

\* C2: refresh() while a fetch is outstanding is a no-op: no second fetch, the
\* loaded sessions and the display unchanged.
C2_RefreshNoOpWhileFetching ==
  [][(Refresh /\ inflight > 0) =>
       /\ inflight' = inflight
       /\ fetchCount' = fetchCount
       /\ allSessions' = allSessions
       /\ listEl' = listEl]_vars

\* The error display of a failed fetch
FetchErrorShown ==
  listEl = setError("Unable to load live class times. Please open the full class schedule.")

\* C3: a failed fetch shows the error, leaves the loaded sessions alone and
\* starts no fetch, and the error stays displayed until refresh() is called.
C3_ErrorPersistsUntilRefresh ==
  [][/\ FetchFail =>
          /\ FetchErrorShown'
          /\ allSessions' = allSessions
          /\ fetchCount' = fetchCount
     /\ (FetchErrorShown /\ ~Refresh) => FetchErrorShown']_vars

\* C5: under type course_id the value is a comma-separated allow-list: an
\* upcoming session is kept by the widget's filter exactly when its course_id,
\* as text, is one of the entries.
C5_CourseIdAllowList ==
  (/\ filterResult.by = "widget"
   /\ ReadFilter.type = "course_id"
   /\ ReadFilter.value # Null) =>
    \A i \in 1..Len(allSessions) :
      IsUpcoming(allSessions[i]) =>
        (allSessions[i] \in Range(filterResult.out)
           <=> String(allSessions[i].course_id)
                 \in Range(CourseIdList(ReadFilter.value)))

\* C6: under type deliveryMode, and under its alias delivery, with a non-empty
\* value the filter keeps exactly the upcoming sessions whose deliveryMode
\* equals the value.
C6_DeliveryModeExact ==
  (/\ filterResult.by = "widget"
   /\ ReadFilter.type \in {"deliveryMode", "delivery"}
   /\ ReadFilter.value # Null) =>
    LET Wanted(s) == IsUpcoming(s) /\ s.deliveryMode = ReadFilter.value
    IN filterResult.out = SelectSeq(allSessions, Wanted)

\* C7: no feed value reaches the card markup with one of & < > " ' unescaped.
C7_CardValuesEscaped ==
  listEl.className = ClassCards =>
    \A i \in 1..Len(listEl.content) : listEl.content[i] \notin SpecialChars

\* The session items the current run builds pages for: the items of the
\* retained courses whose date text parses, each with its course title
BuiltItems ==
  UNION {{[title |-> c.Title, item |-> c.UlHtml[k]] :
            k \in {j \in 1..Len(c.UlHtml) : ParseDate(c.UlHtml[j].dateStr) # <<>>}} :
         c \in Range(ExtractCourses(snapshot))}

\* Two built items of one title, date text and location text, with different
\* enrollment ids
SameButEnrollId(a, b) ==
  /\ a.title = b.title
  /\ a.item.dateStr = b.item.dateStr
  /\ a.item.locStr = b.item.locStr
  /\ a.item.enrollId # b.item.enrollId

\* The files that hold the session page of a built item
SessionFilesOf(a) ==
  {f \in DOMAIN files :
     files[f] = [title |-> a.title,
                 body |-> [kind |-> "session", title |-> a.title,
                           dateStr |-> a.item.dateStr, locStr |-> a.item.locStr,
                           enrollId |-> a.item.enrollId]]}

\* C8: two session items of one run with the same course title, date text and
\* location text and different enrollment ids get different slugs: when the
\* session pages are written, each of the two has a file of its own, under a
\* different file name, and neither page has been overwritten by the other.
C8_DistinctSessionFiles ==
  buildPc \in {"sitemap", "done"} =>
    \A a \in BuiltItems : \A b \in BuiltItems :
      SameButEnrollId(a, b) =>
        \E f \in SessionFilesOf(a) : \E g \in SessionFilesOf(b) :
          f # g /\ f[Len(f)] # g[Len(g)]

\* C8 witness: a run has written the pages of two such items
C8_Witness ==
  /\ buildPc = "done"
  /\ \E a \in BuiltItems : \E b \in BuiltItems :
       SameButEnrollId(a, b) /\ SessionFilesOf(a) # {} /\ SessionFilesOf(b) # {}

\* C11: the sitemap written over a tree holding N html files other than the
\* root index.html has exactly N + 1 entries, no URL twice; the index.html
\* files of subdirectories are listed and the root index.html is not.
C11_SitemapCount ==
  buildPc = "done" =>
    LET urls == sitemap[1]
        others == {f \in DOMAIN files : f # rootIndexPath}
    IN /\ Len(urls) = Cardinality(others) + 1
       /\ \A i \in 1..Len(urls) : \A j \in 1..Len(urls) :
            i # j => urls[i] # urls[j]
       /\ siteOrigin \in Range(urls)
       /\ \A f \in others : siteOrigin \o RelUrl(f) \in Range(urls)
       /\ siteOrigin \o <<"index.html">> \notin Range(urls)

\* C11 witness: the sitemap was built over a tree that holds the root
\* index.html, a course page and a location page (both named index.html)
C11_Witness ==
  /\ buildPc = "done"
  /\ rootIndexPath \in DOMAIN files
  /\ \E f \in DOMAIN files :
       Len(f) = 3 /\ f[1] = <<"courses">> /\ f[3] = <<"index.html">>
  /\ \E f \in DOMAIN files :
       Len(f) = 3 /\ f[1] = <<"locations">> /\ f[3] = <<"index.html">>

\* C12: a page written by an earlier run is never deleted by the build, also
\* when a later run does not regenerate it; the sitemap a run writes lists it,
\* and lists exactly the html files on disk when it is built (the root
\* index.html as the site root).
C12_StaleFilesStayListed ==
  /\ prevWritten \subseteq DOMAIN files
  /\ buildPc = "done" =>
       /\ \A f \in prevWritten : siteOrigin \o RelUrl(f) \in Range(sitemap[1])
       /\ Range(sitemap[1]) =
            {siteOrigin} \cup
              {siteOrigin \o RelUrl(f) : f \in DOMAIN files \ {rootIndexPath}}

\* C12 witness: a second run has finished and did not regenerate a page the
\* first run wrote
C12_Witness ==
  /\ buildPc = "done"
  /\ runs = 2
  /\ \E f \in prevWritten : f \notin Range(written)

\* C13: a build started without the snapshot file aborts before any output:
\* no directory is created, no page is written and an existing sitemap.xml
\* stays as it was.
C13_MissingSnapshotAborts ==
  [][(BuildStart /\ snapshotPath \notin DOMAIN files) =>
       /\ buildPc' = "aborted"
       /\ dirs' = dirs
       /\ files' = files
       /\ written' = <<>>
       /\ sitemap' = sitemap]_vars

\* C13 witness: a build has aborted on a tree that holds a sitemap.xml and the
\* site's index.html, and no snapshot
C13_Witness ==
  /\ buildPc = "aborted"
  /\ snapshotPath \notin DOMAIN files
  /\ sitemap # <<>>
  /\ rootIndexPath \in DOMAIN files

\* The panels of the current snapshot without heading text or without a
\* session list, and the others
Skippable(p) == Trim(p.heading) = <<>> \/ ~p.hasUl

GoodPanels == {i \in 1..Len(snapshot) : ~Skippable(snapshot[i])}

\* <<i, j>>: item j of good panel i, whose date text parses
GoodItems ==
  UNION {{<<i, j>> : j \in {k \in 1..Len(snapshot[i].items) :
                              ParseDate(snapshot[i].items[k].dateStr) # <<>>}} :
         i \in GoodPanels}

\* the writes of the current run below one output directory
WritesUnder(dir) == {k \in 1..Len(written) : written[k][1] = dir}

\* C14: a panel without heading text or without a session list yields no
\* course page and no session, an item whose date text does not parse yields
\* no session page and no location entry, the pages of all other records are
\* written by the time the run is at the sitemap step, and no run that has
\* read its panels is aborted.
C14_SkipsDoNotStopBuild ==
  /\ buildPc = "aborted" => snapshot = <<>>
  /\ buildPc \in {"sitemap", "done"} =>
      /\ Cardinality(WritesUnder(<<"courses">>)) = Cardinality(GoodPanels)
      /\ Cardinality(WritesUnder(<<"sessions">>)) = Cardinality(GoodItems)
      /\ Len(buildSessions) =
           Cardinality({ij \in GoodItems : snapshot[ij[1]].items[ij[2]].locStr # <<>>})
      /\ \A i \in GoodPanels :
           << <<"courses">>, Slug(Trim(snapshot[i].heading)), <<"index.html">> >>
             \in Range(written)
      /\ \A ij \in GoodItems :
           LET item == snapshot[ij[1]].items[ij[2]]
           IN SessionOutFile(Trim(snapshot[ij[1]].heading), item,
                             ParseDate(item.dateStr)[1]) \in Range(written)

\* C14 witness: a run has completed over a snapshot that holds a skippable
\* panel and a good panel with an item whose date does not parse and one
\* whose date does
C14_Witness ==
  /\ buildPc = "done"
  /\ \E i \in 1..Len(snapshot) : Skippable(snapshot[i])
  /\ \E i \in GoodPanels :
       /\ \E k \in 1..Len(snapshot[i].items) :
            ParseDate(snapshot[i].items[k].dateStr) = <<>>
       /\ \E k \in 1..Len(snapshot[i].items) : <<i, k>> \in GoodItems

\* C15: after the course loop every retained panel has a course page of its
\* own, holding its own id, title and session list, so that k retained panels
\* leave k distinct course page files written by the run.
C15_OneCoursePagePerCourse ==
  buildPc \in {"sitemap", "done"} =>
    /\ Cardinality({f \in Range(written) : f[1] = <<"courses">>}) =
         Cardinality(GoodPanels)
    /\ \A i \in GoodPanels :
         \E f \in DOMAIN files :
           /\ f[1] = <<"courses">>
           /\ files[f].body = [kind |-> "course",
                               title |-> Trim(snapshot[i].heading),
                               id |-> snapshot[i].id,
                               ul |-> snapshot[i].items]

\* The sessions the view has to show for the loaded set under the filter
\* object as it stands: the upcoming sessions that match its type and value,
\* by start, cut to maxSessions
ViewOfCurrentFilter ==
  LET type == IF PeriscopeFilter.defined THEN TypeOrNull(PeriscopeFilter.type)
              ELSE "NULL"
      value == IF PeriscopeFilter.defined THEN ValueOrNull(PeriscopeFilter.value)
               ELSE Null
      Keep(s) == /\ IsUpcoming(s)
                 /\ (type = "NULL" \/ value = Null \/ MatchesFilter(s, type, value))
  IN Slice(SortByStart(SelectSeq(allSessions, Keep)), maxSessions)

\* The filter object differs from the filter of the last render or refresh()
FilterChangedSinceRender ==
  LET type == IF PeriscopeFilter.defined THEN TypeOrNull(PeriscopeFilter.type)
              ELSE "NULL"
      value == IF PeriscopeFilter.defined THEN ValueOrNull(PeriscopeFilter.value)
               ELSE Null
  IN lastFilter.type # type \/ lastFilter.value # value

\* C16: with a non-empty session set loaded, refresh() leaves the view of the
\* filter object as it stands (its cards, or the empty state); assigning the
\* filter object changes nothing on screen, and from the filter change up to
\* the refresh() call the view stays as it was.
C16_RefreshShowsCurrentFilter ==
  [][/\ (Refresh /\ Len(allSessions) > 0) =>
          IF ViewOfCurrentFilter = <<>>
          THEN listEl'.className = ClassEmpty /\ limited' = <<>>
          ELSE listEl'.className = ClassCards /\ limited' = ViewOfCurrentFilter
     /\ SetFilter => UNCHANGED <<listEl, limited, footerHref>>
     /\ (Len(allSessions) > 0 /\ FilterChangedSinceRender /\ ~Refresh) =>
          UNCHANGED <<listEl, limited, footerHref>>]_vars

\* how often x occurs in q
Occurrences(x, q) == Cardinality({i \in 1..Len(q) : q[i] = x})

\* the number of cards in the markup of the list
CardCount(content) ==
  Cardinality({i \in 1..Len(content) : content[i] = "<div class=\"periscope-card\">"})

\* the maximum the host page configured: 4 when data-max-sessions is absent
\* or not a number
ConfiguredMax == IF maxSessionsAttr = <<>> THEN 4 ELSE maxSessionsAttr[1]

OpenItems(items) == {i \in 1..Len(items) : items[i].open}

\* the families whose name holds "bls" in any letter case
BlsFamilies(items) ==
  {i \in 1..Len(items) : Contains(ToLowerInvariant(items[i].title), <<"b", "l", "s">>)}

\* the item the claim expects open right after rendering: the first BLS family
\* when there is one, else the first family
ExpectedOpen(items) ==
  IF BlsFamilies(items) # {}
  THEN CHOOSE i \in BlsFamilies(items) : \A j \in BlsFamilies(items) : i <= j
  ELSE 1

\* the step in which the schedule renders
RenderStep == accPc = "loading" /\ accPc' = "rendered"

\* after rendering and after every header click at most one item is open; a
\* click on a closed item's header leaves exactly that item open, a click on
\* the open item's header leaves none open
ClicksKeepOneOpen ==
  /\ accPc' = "rendered" => Cardinality(OpenItems(accItems')) <= 1
  /\ \A k \in 1..Len(accItems) :
       ClickHeader(k) =>
         IF accItems[k].open
         THEN OpenItems(accItems') = {}
         ELSE OpenItems(accItems') = {k}

\* C18, as stated: at most one family item is open at any time after
\* rendering; right after rendering exactly one item is open, the BLS family
\* when present, else the first family; a click on a closed item opens it and
\* closes every other, a click on the open item closes it and leaves none open
C18_ExactlyOneOpenAfterRender ==
  [][ /\ ClicksKeepOneOpen
      /\ RenderStep => OpenItems(accItems') = {ExpectedOpen(accItems')}
    ]_vars

\* C18, amended: the same, except that right after rendering exactly one item
\* is open only when the schedule has at least one course; a schedule whose
\* course list is empty renders no item, so none is open
C18_OneOpenWhenAnyFamily ==
  [][ /\ ClicksKeepOneOpen
      /\ RenderStep =>
           IF Len(accItems') = 0
           THEN OpenItems(accItems') = {}
           ELSE OpenItems(accItems') = {ExpectedOpen(accItems')}
    ]_vars

\* C18 witness: a schedule rendered three families with a BLS family that is
\* not the first, and a click has since opened a family that is neither the
\* BLS family nor the first
C18_Witness ==
  /\ accPc = "rendered"
  /\ Len(accItems) = 3
  /\ 1 \notin BlsFamilies(accItems)
  /\ \E k \in 2..3 : k \notin BlsFamilies(accItems) /\ OpenItems(accItems) = {k}
  /\ BlsFamilies(accItems) # {}

====
